---- MODULE Spec2Model ----
(***************************************************************************)
(* Model of the turn/grid simulation core of ludum-43: Grid and Cell       *)
(* (grid.ts), PhysicalUnit / Character / Statistics (unit.ts), the World   *)
(* turn controller (world.ts) and the AIController (ai-controller.ts).     *)
(***************************************************************************)
EXTENDS Integers, Sequences, FiniteSets, TLC

\* ------------------------------------------------------------------------
\* Bounds of the model
\* ------------------------------------------------------------------------
GridWidth == 3
GridHeight == 14
MaxHP == 1
MaxAP == 2
MaxAmount == 2
MaxFill == 2
MaxHumans == 2

\* ------------------------------------------------------------------------
\* Program constants
\* ------------------------------------------------------------------------
rangeOfVisibility == 5

\* ------------------------------------------------------------------------
\* The units of the scenario
\* ------------------------------------------------------------------------
Friendly == "Friendly"
Hostile == "Hostile"
Neutral == "Neutral"
Control == {Friendly, Hostile, Neutral}

\* Characters created by the map loader, and one plain PhysicalUnit marker.
Friendlies == {"f1", "f2"}
Hostiles == {"z1"}
Characters == Friendlies \cup Hostiles
Markers == {"m1"}
Units == Characters \cup Markers

NoUnit == "null"
NoCell == -1
\* No direct call recorded.
NoCall == [op |-> "none"]
\* AIController.doTurn is not running.
NoTurn == [k |-> 0, scanned |-> FALSE, nearby |-> << >>, start |-> NoCell]

\* No key (lastKeyDown undefined, no onPress in flight), and the Keyboard
\* after construction: no key held, fired is the set of the held keys whose
\* onPress ran since they went down.
NoKey == "none"
NoKeyboard ==
  [isDown |-> {}, lastKeyDown |-> NoKey, fired |-> {}, pending |-> NoKey]

NumCells == GridWidth * GridHeight
Cells == 0 .. (NumCells - 1)

VARIABLES
  cellUnits,         \* Cell.mUnits of every cell, by index into Grid.cells
  unitCell,          \* PhysicalUnit.cell of every unit
  control,           \* PhysicalUnit.control
  mHitPoints,        \* Statistics.mHitPoints of every character
  mActionPoints,     \* Statistics.mActionPoints of every character
  mMaxHitPoints,     \* Statistics.mMaxHitPoints
  maxActionPoints,   \* Statistics.maxActionPoints
  players,           \* World.players
  zombies,           \* World.zombies
  selectedPlayerId,  \* World.selectedPlayerId (0-based)
  playerActions,     \* World.playerActions
  raised,            \* whether the last handler ended by a TypeError
  ret,               \* the last direct call: its inputs and its return value
  aiTurn,            \* where AIController.doTurn stands, when run by steps
  keyboard           \* the Keyboard: keys held, lastKeyDown, onPress in flight

vars == <<cellUnits, unitCell, control, mHitPoints, mActionPoints,
          mMaxHitPoints, maxActionPoints, players, zombies,
          selectedPlayerId, playerActions, raised, ret, aiTurn, keyboard>>

\* ------------------------------------------------------------------------
\* Grid and Cell (grid.ts)
\* ------------------------------------------------------------------------
\* Cell.x / Cell.y: the cell stored at index x + y * width was built with
\* (x, y) by the Grid constructor.
CellX(c) == c % GridWidth
CellY(c) == c \div GridWidth

\* Grid.isOnGrid
isOnGrid(x, y) == x >= 0 /\ y >= 0 /\ x <= GridWidth - 1 /\ y <= GridHeight - 1

\* Grid.get with the two coordinates exchanged in the index.
Mut_GridGet(x, y) ==
  LET index == x * GridWidth + y
  IN  IF index >= 0 /\ index < NumCells THEN index ELSE NoCell

\* Grid.get: a plain array read, cells[x + y * width]; an index outside
\* the array reads undefined (NoCell).
GridGet(x, y) ==
  LET index == x + y * GridWidth
  IN  IF index >= 0 /\ index < NumCells THEN index ELSE NoCell

\* The ground layer (collidesFn of the Grid constructor): open floor on two
\* rows in the middle of the map, with one colliding tile at (1, 7) inside;
\* every other tile collides.
Collides(c) ==
  \/ CellY(c) \notin {6, 7}
  \/ (CellX(c) = 1 /\ CellY(c) = 7)

\* PhysicalUnit.isVisible / preventsMovement: DisplayUnit (so Character)
\* overrides isVisible to true.
isVisible(u) == u \in Characters
preventsMovement(u) == isVisible(u)

\* Cell.hasUnit
hasUnit(cu, c, u) == \E k \in 1 .. Len(cu[c]) : cu[c][k] = u

\* Cell.addUnit
addUnit(cu, c, u) ==
  IF ~hasUnit(cu, c, u) THEN [cu EXCEPT ![c] = Append(@, u)] ELSE cu

\* Cell.removeUnit: splice out the first occurrence.
removeUnit(cu, c, u) ==
  IF ~hasUnit(cu, c, u) THEN cu
  ELSE LET index == CHOOSE k \in 1 .. Len(cu[c]) :
                      cu[c][k] = u /\ \A l \in 1 .. (k - 1) : cu[c][l] # u
       IN  [cu EXCEPT ![c] = SubSeq(@, 1, index - 1) \o
                             SubSeq(@, index + 1, Len(@))]

\* Cell.adjacentCells(fill) of cell c: grid.get(x + i, y + j) pushed for i
\* outer and j inner from -fill to fill, then filtered by r !== null.  No
\* entry is ever null: an undefined entry (NoCell) stays.
adjacentCells(c, fill) ==
  [k \in 1 .. ((2 * fill + 1) * (2 * fill + 1)) |->
     GridGet(CellX(c) + ((k - 1) \div (2 * fill + 1)) - fill,
             CellY(c) + ((k - 1) % (2 * fill + 1)) - fill)]

\* Cell.isPathable as in the earlier revision of the class: units only.
Mut_CellIsPathable(cu, c) ==
  ~(\E k \in 1 .. Len(cu[c]) : preventsMovement(cu[c][k]))

\* Cell.isPathable
CellIsPathable(cu, c) ==
  ~Collides(c) /\ ~(\E k \in 1 .. Len(cu[c]) : preventsMovement(cu[c][k]))

\* Grid.isPathable relying on the array read instead of isOnGrid.
Mut_GridIsPathable(cu, x, y) ==
  IF GridGet(x, y) = NoCell THEN FALSE ELSE CellIsPathable(cu, GridGet(x, y))

\* Grid.isPathable
GridIsPathable(cu, x, y) ==
  IF ~isOnGrid(x, y) THEN FALSE ELSE CellIsPathable(cu, GridGet(x, y))

\* Cell.getAttackableUnits
getAttackableUnits(cu, ctl, attackingUnit, c) ==
  SelectSeq(cu[c], LAMBDA attackedUnit :
    IF ctl[attackingUnit] = Neutral \/ ctl[attackedUnit] = Neutral
    THEN FALSE
    ELSE ctl[attackingUnit] # ctl[attackedUnit])

\* Grid.getAttackbleUnit returning the last attackable unit of the cell.
Mut_getAttackbleUnit(cu, ctl, attackingUnit, x, y) ==
  IF ~isOnGrid(x, y) THEN NoUnit
  ELSE LET attackableUnits ==
             getAttackableUnits(cu, ctl, attackingUnit, GridGet(x, y))
       IN  IF Len(attackableUnits) # 0
           THEN attackableUnits[Len(attackableUnits)] ELSE NoUnit

\* Grid.getAttackbleUnit
getAttackbleUnit(cu, ctl, attackingUnit, x, y) ==
  IF ~isOnGrid(x, y) THEN NoUnit
  ELSE LET attackableUnits ==
             getAttackableUnits(cu, ctl, attackingUnit, GridGet(x, y))
       IN  IF Len(attackableUnits) # 0 THEN attackableUnits[1] ELSE NoUnit

\* ------------------------------------------------------------------------
\* Statistics (unit.ts); each returns the new value and the return value.
\* ------------------------------------------------------------------------
Max(a, b) == IF a >= b THEN a ELSE b
Min(a, b) == IF a <= b THEN a ELSE b

\* Statistics.useActionPoints without the check of the remaining points.
Mut_useActionPoints(ap, amount) ==
  [value |-> ap - amount, result |-> TRUE]

\* Statistics.useActionPoints
useActionPoints(ap, amount) ==
  LET newActionPoints == ap - amount
  IN  IF newActionPoints >= 0
      THEN [value |-> newActionPoints, result |-> TRUE]
      ELSE [value |-> ap, result |-> FALSE]

\* Statistics.useHitPoints
useHitPoints(hp, amount) ==
  LET newHitPoints == hp - amount
  IN  [value |-> Max(newHitPoints, 0), result |-> (newHitPoints = 0)]

\* Statistics.healBy without the cap at the maximum.
Mut_healBy(hp, maxHp, amount) == hp + amount

\* Statistics.healBy
healBy(hp, maxHp, amount) == Min(maxHp, hp + amount)

\* Statistics.restoreBy
restoreBy(ap, maxAp, amount) == Min(maxAp, ap + amount)

\* ------------------------------------------------------------------------
\* PhysicalUnit and Character (unit.ts).  S is the mutable state the calls
\* work on: cu (cells' units), uc (units' cell), ap, hp.
\* ------------------------------------------------------------------------
UnitX(S, u) == CellX(S.uc[u])
UnitY(S, u) == CellY(S.uc[u])

\* PhysicalUnit.moveImmediate without the removal from the old cell.
Mut_PhysicalMoveImmediate(S, u, newCell) ==
  [S EXCEPT !.cu = addUnit(S.cu, newCell, u), !.uc[u] = newCell]

\* PhysicalUnit.moveImmediate: remove from the old cell, set cell, add.
PhysicalMoveImmediate(S, u, newCell) ==
  LET removed == removeUnit(S.cu, S.uc[u], u)
  IN  [S EXCEPT !.cu = addUnit(removed, newCell, u), !.uc[u] = newCell]

\* Character.moveImmediate: spend one action point, then the super call.
CharacterMoveImmediate(S, u, newCell) ==
  LET spent == [S EXCEPT !.ap[u] = useActionPoints(@, 1).value]
  IN  PhysicalMoveImmediate(spent, u, newCell)

\* PhysicalUnit.moveTo, dispatching on the unit's class.
moveTo(S, u, newCell) ==
  IF u \in Characters
  THEN CharacterMoveImmediate(S, u, newCell)
  ELSE PhysicalMoveImmediate(S, u, newCell)

\* Character.attack taking an action point from the target as well.
Mut_attack(S, attacker, target) ==
  [S EXCEPT !.ap = [@ EXCEPT ![attacker] = useActionPoints(@, 1).value,
                             ![target] = useActionPoints(@, 1).value],
            !.hp[target] = useHitPoints(@, 1).value]

\* Character.attack
attack(S, attacker, target) ==
  [S EXCEPT !.ap[attacker] = useActionPoints(@, 1).value,
            !.hp[target] = useHitPoints(@, 1).value]

\* Character.newTurn
newTurn(S, u, maxAp) == [S EXCEPT !.ap[u] = maxAp[u]]

\* ------------------------------------------------------------------------
\* World (world.ts)
\* ------------------------------------------------------------------------
Move == "Move"
Attack == "Attack"

\* new UnitAction(type, position, targetUnit)
UnitAction(type, x, y, targetUnit) ==
  [type |-> type, x |-> x, y |-> y, targetUnit |-> targetUnit]

\* World.xyInBounds
xyInBounds(x, y) == x >= 0 /\ x <= GridWidth /\ y >= 0 /\ y <= GridHeight

\* The loop body without the continue that follows the Attack action.
Mut_ActionsAt(S, ctl, unit, i, j) ==
  LET x == UnitX(S, unit)
      y == UnitY(S, unit)
      px == x + i
      py == y + j
      attackableUnit == getAttackbleUnit(S.cu, ctl, unit, px, py)
  IN  IF ~xyInBounds(px, py) THEN << >>
      ELSE IF x = px /\ y = py THEN << >>
      ELSE (IF attackableUnit # NoUnit
            THEN << UnitAction(Attack, px, py, attackableUnit) >>
            ELSE << >>)
           \o (IF GridIsPathable(S.cu, px, py)
               THEN << UnitAction(Move, px, py, NoUnit) >>
               ELSE << >>)

\* The body of the two nested loops of World.getUnitActions for one (i, j).
ActionsAt(S, ctl, unit, i, j) ==
  LET x == UnitX(S, unit)
      y == UnitY(S, unit)
      px == x + i
      py == y + j
      attackableUnit == getAttackbleUnit(S.cu, ctl, unit, px, py)
  IN  IF ~xyInBounds(px, py) THEN << >>
      ELSE IF x = px /\ y = py THEN << >>
      ELSE IF attackableUnit # NoUnit
           THEN << UnitAction(Attack, px, py, attackableUnit) >>
      ELSE IF GridIsPathable(S.cu, px, py)
           THEN << UnitAction(Move, px, py, NoUnit) >>
      ELSE << >>

\* The loops of World.getUnitActions with the offsets exchanged: the row
\* outer, the column inner.
RECURSIVE Mut_ScanActions(_, _, _, _)
Mut_ScanActions(S, ctl, unit, k) ==
  IF k > 9 THEN << >>
  ELSE ActionsAt(S, ctl, unit, ((k - 1) % 3) - 1, ((k - 1) \div 3) - 1)
         \o Mut_ScanActions(S, ctl, unit, k + 1)

\* The loops of World.getUnitActions: i outer, j inner, both from -d to d.
RECURSIVE ScanActions(_, _, _, _)
ScanActions(S, ctl, unit, k) ==
  IF k > 9 THEN << >>
  ELSE ActionsAt(S, ctl, unit, ((k - 1) \div 3) - 1, ((k - 1) % 3) - 1)
         \o ScanActions(S, ctl, unit, k + 1)

\* World.getUnitActions without the check of the action points.
Mut_getUnitActions(S, ctl, unit) == ScanActions(S, ctl, unit, 1)

\* World.getUnitActions
getUnitActions(S, ctl, unit) ==
  IF unit \in Characters /\ S.ap[unit] <= 0 THEN << >>
  ELSE ScanActions(S, ctl, unit, 1)

\* The current state, as the record the operations work on.
Now == [cu |-> cellUnits, uc |-> unitCell, ap |-> mActionPoints,
        hp |-> mHitPoints]

\* World.getSelectedPlayer: players[selectedPlayerId], undefined (NoUnit)
\* when the index is outside the roster.
getSelectedPlayer(id) ==
  IF id >= 0 /\ id < Len(players) THEN players[id + 1] ELSE NoUnit

\* ------------------------------------------------------------------------
\* AIController (ai-controller.ts)
\* ------------------------------------------------------------------------
ScanWidth == 2 * rangeOfVisibility + 1

\* The offsets (i, j) of the k-th iteration of the loops of
\* Cell.adjacentCells(rangeOfVisibility): i outer, j inner.
ScanI == [k \in 1 .. (ScanWidth * ScanWidth) |->
            ((k - 1) \div ScanWidth) - rangeOfVisibility]
ScanJ == [k \in 1 .. (ScanWidth * ScanWidth) |->
            ((k - 1) % ScanWidth) - rangeOfVisibility]

\* The k-th entry adjacentCells pushes for the cell at (x, y):
\* grid.get(x + i, y + j).
ScannedCell(x, y, k) == GridGet(x + ScanI[k], y + ScanJ[k])

\* adjacentCells keeps every entry that is not null; an undefined entry
\* stays in the list and reading its units raises a TypeError.
ScanRaises(S, z) ==
  LET x == UnitX(S, z)
      y == UnitY(S, z)
  IN  \E k \in 1 .. (ScanWidth * ScanWidth) : ScannedCell(x, y, k) = NoCell

\* The units of one scanned cell that AIController.doTurn pushes to nearby.
NearbyIn(cu, c) ==
  IF cu[c] = << >> THEN << >>
  ELSE SelectSeq(cu[c],
         LAMBDA unit : unit \in Characters /\ control[unit] = Friendly)

\* The nearby list AIController.doTurn builds from the scanned entries
\* lo .. hi around (x, y), in scan order.
RECURSIVE NearbyFrom(_, _, _, _, _)
NearbyFrom(cu, x, y, lo, hi) ==
  IF lo > hi THEN << >>
  ELSE IF lo = hi THEN NearbyIn(cu, ScannedCell(x, y, lo))
  ELSE NearbyFrom(cu, x, y, lo, (lo + hi) \div 2)
         \o NearbyFrom(cu, x, y, ((lo + hi) \div 2) + 1, hi)

Nearby(S, z) ==
  LET cu == S.cu
      x == UnitX(S, z)
      y == UnitY(S, z)
  IN  NearbyFrom(cu, x, y, 1, ScanWidth * ScanWidth)

\* Squared Euclidean distance between two units (Vector2.distance compares
\* the same way as its square).
Distance2(S, a, b) ==
  (UnitX(S, a) - UnitX(S, b)) * (UnitX(S, a) - UnitX(S, b))
    + (UnitY(S, a) - UnitY(S, b)) * (UnitY(S, a) - UnitY(S, b))

\* AIController.closest: a later human replaces the result only when
\* strictly closer.
RECURSIVE closestFrom(_, _, _, _, _)
closestFrom(S, z, humans, k, result) ==
  IF k > Len(humans) THEN result
  ELSE LET human == humans[k]
           closer == \/ result = NoUnit
                     \/ Distance2(S, human, z) < Distance2(S, result, z)
       IN  closestFrom(S, z, humans, k + 1, IF closer THEN human ELSE result)

\* AIController.closest answering with the first human of the list.
Mut_closest(S, z, humans) ==
  IF humans = << >> THEN NoUnit ELSE humans[1]

closest(S, z, humans) == closestFrom(S, z, humans, 1, NoUnit)

\* AIController.inMeleeRange
Abs(n) == IF n < 0 THEN 0 - n ELSE n
inMeleeRange(S, zombie, human) ==
  /\ Abs(UnitX(S, zombie) - UnitX(S, human)) <= 1
  /\ Abs(UnitY(S, zombie) - UnitY(S, human)) <= 1

\* World.performAttack, called by AIController.doAttack: the attack
\* primitive of the player path.
performAttack(S, attacker, target) == attack(S, attacker, target)

\* AIController.doAttack
doAttack(S, zombie, human) == performAttack(S, zombie, human)

\* AIController.doMoveTowards stepping along the column only.
Mut_doMoveTowards(S, zombie, human) ==
  LET spent == [S EXCEPT !.ap[zombie] = useActionPoints(@, 1).value]
      y == IF UnitY(spent, human) > UnitY(spent, zombie) THEN 1
           ELSE IF UnitY(spent, human) < UnitY(spent, zombie) THEN 0 - 1
           ELSE 0
  IN  moveTo(spent, zombie,
             GridGet(UnitX(spent, zombie), UnitY(spent, zombie) + y))

\* AIController.doMoveTowards
Sign(from, to) == IF to > from THEN 1 ELSE IF to < from THEN 0 - 1 ELSE 0
doMoveTowards(S, zombie, human) ==
  LET spent == [S EXCEPT !.ap[zombie] = useActionPoints(@, 1).value]
      x == Sign(UnitX(spent, zombie), UnitX(spent, human))
      y == Sign(UnitY(spent, zombie), UnitY(spent, human))
  IN  moveTo(spent, zombie,
             GridGet(UnitX(spent, zombie) + x, UnitY(spent, zombie) + y))

\* The wander branch of AIController.doAction spending two points.
Mut_doWander(S, zombie) ==
  [S EXCEPT !.ap[zombie] = useActionPoints(@, 2).value]

\* The wander branch of AIController.doAction: nothing but one action
\* point spent.
doWander(S, zombie) ==
  [S EXCEPT !.ap[zombie] = useActionPoints(@, 1).value]

\* AIController.doAction with a wander branch that spends nothing.
Mut_doAction(S, zombie, nearby) ==
  LET target == closest(S, zombie, nearby)
  IN  IF target # NoUnit
      THEN IF inMeleeRange(S, zombie, target)
           THEN doAttack(S, zombie, target)
           ELSE doMoveTowards(S, zombie, target)
      ELSE S

\* AIController.doAction
doAction(S, zombie, nearby) ==
  LET target == closest(S, zombie, nearby)
  IN  IF target # NoUnit
      THEN IF inMeleeRange(S, zombie, target)
           THEN doAttack(S, zombie, target)
           ELSE doMoveTowards(S, zombie, target)
      ELSE doWander(S, zombie)

\* AIController.doActions
RECURSIVE doActions(_, _, _)
doActions(S, zombie, nearby) ==
  IF S.ap[zombie] = 0 THEN S
  ELSE doActions(doAction(S, zombie, nearby), zombie, nearby)

\* AIController.doTurn from the k-th zombie on; threw tells whether the
\* forEach was left by a TypeError.
RECURSIVE doTurnFrom(_, _)
doTurnFrom(S, k) ==
  IF k > Len(zombies) THEN [s |-> S, threw |-> FALSE]
  ELSE LET z == zombies[k]
           restored == [S EXCEPT !.ap[z] = maxActionPoints[z]]
       IN  IF ScanRaises(restored, z)
           THEN [s |-> restored, threw |-> TRUE]
           ELSE doTurnFrom(doActions(restored, z, Nearby(restored, z)),
                           k + 1)

doTurn(S) == doTurnFrom(S, 1)

\* ------------------------------------------------------------------------
\* Handlers of the World, each one whole call
\* ------------------------------------------------------------------------
SetState(S) ==
  /\ cellUnits' = S.cu
  /\ unitCell' = S.uc
  /\ mActionPoints' = S.ap
  /\ mHitPoints' = S.hp

\* What no handler of the World touches; the onPress call that ran the
\* handler, if one did, is over when the handler is left.
Static ==
  /\ UNCHANGED <<control, mMaxHitPoints, maxActionPoints, players, zombies,
                 aiTurn>>
  /\ keyboard' = [keyboard EXCEPT !.pending = NoKey]

\* World.selectPlayer(id) with World.updatePlayerActions: the action set
\* it leaves, or a TypeError on players[id].x when id is not in the roster.
selectPlayerOn(S, pa, id) ==
  IF getSelectedPlayer(id) = NoUnit
  THEN [pa |-> pa, threw |-> TRUE]
  ELSE [pa |-> getUnitActions(S, control, getSelectedPlayer(id)),
        threw |-> FALSE]

\* World.selectPlayer called from the menu or the keyboard.
SelectPlayer(id) ==
  \E r \in {selectPlayerOn(Now, playerActions, id)} :
      /\ selectedPlayerId' = id
      /\ playerActions' = r.pa
      /\ raised' = r.threw
      /\ ret' = NoCall
      /\ UNCHANGED <<cellUnits, unitCell, mActionPoints, mHitPoints>>
      /\ Static

\* World.gridEvents, as loaded from the map: one speak event on the tile
\* between the spawns and one on the floor tile below the zombie's spawn.
gridEvents ==
  << [x |-> 1, y |-> 6, type |-> "speak", text |-> "a"],
     [x |-> 2, y |-> 7, type |-> "speak", text |-> "b"] >>

\* The message of the win event.
WinText == "I did it! I made it!"

\* The grid events checked on the y coordinate only.
Mut_FiredEvents(S, pc) ==
  LET fired == SelectSeq(gridEvents,
                 LAMBDA ge : /\ ge.y = UnitY(S, pc)
                             /\ ge.type \in {"speak", "win"})
  IN  [k \in 1 .. Len(fired) |->
         IF fired[k].type = "speak" THEN fired[k].text ELSE WinText]

\* The grid events World.handleClick fires for unit pc after its move:
\* those whose coordinates are the unit's, of type speak or win, in the
\* order of the list; each one is a call of pc.speak with this text.
FiredEvents(S, pc) ==
  LET fired == SelectSeq(gridEvents,
                 LAMBDA ge : /\ ge.x = UnitX(S, pc)
                             /\ ge.y = UnitY(S, pc)
                             /\ ge.type \in {"speak", "win"})
  IN  [k \in 1 .. Len(fired) |->
         IF fired[k].type = "speak" THEN fired[k].text ELSE WinText]

\* The forEach over the matching actions in World.handleClick; spoken
\* lists the texts of the grid events fired.
RECURSIVE runActions(_, _, _, _, _)
runActions(W, acts, k, gridX, gridY) ==
  IF k > Len(acts) \/ W.threw THEN W
  ELSE
    LET action == acts[k]
        pc == getSelectedPlayer(selectedPlayerId)
    IN  IF pc = NoUnit THEN [W EXCEPT !.threw = TRUE]
        ELSE IF action.type = Move
        THEN LET moved == moveTo(W.s, pc, GridGet(gridX, gridY))
                 r == selectPlayerOn(moved, W.pa, selectedPlayerId)
             IN  runActions([s |-> moved, pa |-> r.pa, threw |-> r.threw,
                             spoken |-> W.spoken \o FiredEvents(moved, pc)],
                            acts, k + 1, gridX, gridY)
        ELSE IF action.targetUnit \notin Characters
        THEN \* target.stats is undefined: the attacker has paid, then
             \* a TypeError
             [W EXCEPT !.s.ap[pc] = useActionPoints(@, 1).value,
                       !.threw = TRUE]
        ELSE LET hit == attack(W.s, pc, action.targetUnit)
                 r == selectPlayerOn(hit, W.pa, selectedPlayerId)
             IN  runActions([s |-> hit, pa |-> r.pa, threw |-> r.threw,
                             spoken |-> W.spoken],
                            acts, k + 1, gridX, gridY)

\* The roster indices of the players standing on (gridX, gridY).
ClickedPlayers(gridX, gridY) ==
  { id \in 0 .. (Len(players) - 1) :
      /\ CellX(unitCell[players[id + 1]]) = gridX
      /\ CellY(unitCell[players[id + 1]]) = gridY }

\* The filter of World.handleClick comparing the x coordinate only.
Mut_MatchingActions(gridX, gridY) ==
  SelectSeq(playerActions, LAMBDA a : gridX = a.x)

\* The filter of World.handleClick: the actions of the action set whose
\* position is the clicked one.
MatchingActions(gridX, gridY) ==
  SelectSeq(playerActions, LAMBDA a : gridX = a.x /\ gridY = a.y)

\* What a recorded handleClick call leaves in ret: the branch it took and
\* whether the clicked position was one of the action set.
ClickRecord(rec, did, matched, spoken) ==
  IF rec THEN [op |-> "handleClick", did |-> did, matched |-> matched,
               spoken |-> spoken]
  ELSE NoCall

\* The action sets selectPlayer computes for the players on the clicked
\* tile.
ClickSelections(clicked) ==
  [id \in clicked |-> selectPlayerOn(Now, playerActions, id).pa]

\* What the forEach over the matching actions leaves; handleClick returns
\* before it when a player was selected.
ClickRun(clicked, acts, gridX, gridY) ==
  IF clicked # {}
  THEN [s |-> Now, pa |-> playerActions, threw |-> FALSE, spoken |-> << >>]
  ELSE runActions([s |-> Now, pa |-> playerActions, threw |-> FALSE,
                   spoken |-> << >>],
                  acts, 1, gridX, gridY)

\* The branches of World.handleClick keeping any one of the players on the
\* clicked tile selected instead of the last of the roster.
Mut_HandleClickWith(clicked, acts, pas, W, rec) ==
  IF clicked # {}
  THEN \E id \in clicked :
         /\ selectedPlayerId' = id
         /\ playerActions' = pas[id]
         /\ raised' = FALSE
         /\ ret' = ClickRecord(rec, "select", acts # << >>, << >>)
         /\ UNCHANGED <<cellUnits, unitCell, mActionPoints, mHitPoints>>
         /\ Static
  ELSE IF acts = << >>
       THEN /\ raised' = FALSE
            /\ ret' = ClickRecord(rec, "nothing", FALSE, << >>)
            /\ UNCHANGED <<cellUnits, unitCell, mActionPoints, mHitPoints,
                           playerActions, selectedPlayerId>>
            /\ Static
       ELSE /\ SetState(W.s)
            /\ playerActions' = W.pa
            /\ raised' = W.threw
            /\ ret' = ClickRecord(rec, "act", TRUE, W.spoken)
            /\ UNCHANGED selectedPlayerId
            /\ Static

\* The branches of World.handleClick: clicked are the players on the tile,
\* acts the matching actions, pas and W what ClickSelections and ClickRun
\* give for them.
HandleClickWith(clicked, acts, pas, W, rec) ==
  IF clicked # {}
  THEN \* every matching player is selected in turn; the last stays
       \E id \in { i \in clicked : \A o \in clicked : o <= i } :
         /\ selectedPlayerId' = id
         /\ playerActions' = pas[id]
         /\ raised' = FALSE
         /\ ret' = ClickRecord(rec, "select", acts # << >>, << >>)
         /\ UNCHANGED <<cellUnits, unitCell, mActionPoints, mHitPoints>>
         /\ Static
  ELSE IF acts = << >>
       THEN /\ raised' = FALSE
            /\ ret' = ClickRecord(rec, "nothing", FALSE, << >>)
            /\ UNCHANGED <<cellUnits, unitCell, mActionPoints, mHitPoints,
                           playerActions, selectedPlayerId>>
            /\ Static
       ELSE /\ SetState(W.s)
            /\ playerActions' = W.pa
            /\ raised' = W.threw
            /\ ret' = ClickRecord(rec, "act", TRUE, W.spoken)
            /\ UNCHANGED selectedPlayerId
            /\ Static

\* World.handleClick trying the action set before the selection.
Mut_HandleClickRec(gridX, gridY, rec) ==
  \E clicked \in {ClickedPlayers(gridX, gridY)} :
  \E acts \in {MatchingActions(gridX, gridY)} :
    IF acts # << >>
    THEN \E W \in {runActions([s |-> Now, pa |-> playerActions,
                               threw |-> FALSE, spoken |-> << >>],
                              acts, 1, gridX, gridY)} :
           /\ SetState(W.s)
           /\ playerActions' = W.pa
           /\ raised' = W.threw
           /\ ret' = ClickRecord(rec, "act", TRUE, W.spoken)
           /\ UNCHANGED selectedPlayerId
           /\ Static
    ELSE IF clicked # {}
         THEN \E id \in { i \in clicked : \A o \in clicked : o <= i } :
                /\ selectedPlayerId' = id
                /\ playerActions' = selectPlayerOn(Now, playerActions, id).pa
                /\ raised' = FALSE
                /\ ret' = ClickRecord(rec, "select", FALSE, << >>)
                /\ UNCHANGED <<cellUnits, unitCell, mActionPoints,
                               mHitPoints>>
                /\ Static
         ELSE /\ raised' = FALSE
              /\ ret' = ClickRecord(rec, "nothing", FALSE, << >>)
              /\ UNCHANGED <<cellUnits, unitCell, mActionPoints, mHitPoints,
                             playerActions, selectedPlayerId>>
              /\ Static

\* World.handleClick(gridX, gridY); rec tells whether the call is recorded.
HandleClickRec(gridX, gridY, rec) ==
  \E clicked \in {ClickedPlayers(gridX, gridY)} :
  \E acts \in {MatchingActions(gridX, gridY)} :
  \E pas \in {ClickSelections(clicked)} :
  \E W \in {ClickRun(clicked, acts, gridX, gridY)} :
    HandleClickWith(clicked, acts, pas, W, rec)

HandleClick(gridX, gridY) == HandleClickRec(gridX, gridY, FALSE)

\* The newTurn calls of World.endTurn made for the players only.
RECURSIVE Mut_newTurnAll(_, _, _)
Mut_newTurnAll(S, roster, k) ==
  IF k > Len(players) THEN S
  ELSE Mut_newTurnAll(newTurn(S, roster[k], maxActionPoints), roster, k + 1)

\* The newTurn calls of World.endTurn: players first, then zombies.
RECURSIVE newTurnAll(_, _, _)
newTurnAll(S, roster, k) ==
  IF k > Len(roster) THEN S
  ELSE newTurnAll(newTurn(S, roster[k], maxActionPoints), roster, k + 1)

\* World.endTurn checking the grid events for the first zombie.
Mut_TurnRecord(rec, afterAI) ==
  IF rec THEN [op |-> "endTurn", afterAI |-> afterAI,
               spoken |-> FiredEvents([uc |-> unitCell'], zombies[1])]
  ELSE NoCall

\* What a recorded endTurn call leaves in ret: the hit points the AI turn
\* left and the texts of the grid events fired; neither endTurn nor the
\* AIController looks at the grid events.
TurnRecord(rec, afterAI) ==
  IF rec THEN [op |-> "endTurn", afterAI |-> afterAI, spoken |-> << >>]
  ELSE NoCall

\* World.endTurn from the return of aiController.doTurn on: ai is what
\* doTurn left; rec tells whether the call is recorded.
EndTurnAfter(ai, rec) ==
  IF ai.threw
  THEN /\ SetState(ai.s)
       /\ raised' = TRUE
       /\ ret' = TurnRecord(rec, ai.s.hp)
       /\ UNCHANGED <<playerActions, selectedPlayerId>>
       /\ Static
  ELSE \E fresh \in {newTurnAll(ai.s, players \o zombies, 1)} :
       \E r \in {selectPlayerOn(fresh, playerActions, selectedPlayerId)} :
         /\ SetState(fresh)
         /\ raised' = r.threw
         /\ playerActions' = r.pa
         /\ ret' = TurnRecord(rec, ai.s.hp)
         /\ UNCHANGED selectedPlayerId
         /\ Static

\* World.endTurn; rec tells whether the call is recorded.
EndTurnRec(rec) == \E ai \in {doTurn(Now)} : EndTurnAfter(ai, rec)

EndTurn == EndTurnRec(FALSE)

\* A direct call unit.moveImmediate(cell) / unit.moveTo(cell) with a cell
\* of the grid.
MoveImmediate(u, c) ==
  /\ \E moved \in {moveTo(Now, u, c)} : SetState(moved)
  /\ raised' = FALSE
  /\ ret' = NoCall
  /\ UNCHANGED <<selectedPlayerId, playerActions>>
  /\ Static

\* ------------------------------------------------------------------------
\* The world after construction (World constructor, ObjectDataParser.parse)
\* ------------------------------------------------------------------------
\* Spawn cells of the map: f1 (0,7), f2 (0,6), z1 (2,6), m1 (1,6).
SpawnCell ==
  [u \in Units |->
     CASE u = "f1" -> GridGet(0, 7)
       [] u = "f2" -> GridGet(0, 6)
       [] u = "z1" -> GridGet(2, 6)
       [] OTHER   -> GridGet(1, 6)]

\* The units are constructed in this order; each constructor adds the unit
\* to its cell.
SpawnOrder == << "f1", "f2", "z1", "m1" >>

RECURSIVE Spawned(_, _)
Spawned(cu, k) ==
  IF k > Len(SpawnOrder) THEN cu
  ELSE Spawned(addUnit(cu, SpawnCell[SpawnOrder[k]], SpawnOrder[k]), k + 1)

\* The world built from the map, the marker having control mc.
InitWorld(mc) ==
  /\ cellUnits = Spawned([c \in Cells |-> << >>], 1)
  /\ unitCell = SpawnCell
  /\ control = [u \in Units |->
                  IF u \in Friendlies THEN Friendly
                  ELSE IF u \in Hostiles THEN Hostile ELSE mc]
  /\ mMaxHitPoints = [c \in Characters |-> IF c = "f2" THEN 1 ELSE MaxHP]
  /\ maxActionPoints =
       [c \in Characters |->
          IF c = "f2" THEN 1 ELSE IF c = "z1" THEN MaxAP + 1 ELSE MaxAP]
  /\ mHitPoints = mMaxHitPoints
  /\ mActionPoints = maxActionPoints
  /\ players = << "f1", "f2" >>
  /\ zombies = << "z1" >>
  /\ selectedPlayerId = 0
  /\ playerActions =
       getUnitActions([cu |-> cellUnits, uc |-> unitCell,
                       ap |-> mActionPoints, hp |-> mHitPoints],
                      control, "f1")
  /\ raised = FALSE
  /\ ret = NoCall
  /\ aiTurn = NoTurn
  /\ keyboard = NoKeyboard

Init == \E mc \in {Neutral, Hostile} : InitWorld(mc)

\* Coordinates of the tiles a click or a movement key can resolve to.
ClickXs == 0 .. (GridWidth - 1)
ClickYs == {5, 6, 7, 8}
\* Cells a direct moveImmediate / moveTo call is given: the zombie's spawn
\* cell and the colliding tile inside the open floor.
DirectCells == {GridGet(2, 6), GridGet(1, 7)}
\* Roster indices the keyboard and the menu select: tab, '1', '2', '3'.
SelectIds == {0, 1, 2}

Next ==
  \/ \E id \in SelectIds : SelectPlayer(id)
  \/ \E x \in ClickXs, y \in ClickYs : HandleClick(x, y)
  \/ EndTurn
  \/ \E u \in Markers, c \in DirectCells : MoveImmediate(u, c)

Spec == Init /\ [][Next]_vars


\* ------------------------------------------------------------------------
\* Direct calls on the Statistics and the Character of a unit
\* ------------------------------------------------------------------------
Call(op, c, amount, before, result) ==
  [op |-> op, unit |-> c, amount |-> amount, before |-> before,
   result |-> result]

Frame ==
  /\ UNCHANGED <<cellUnits, unitCell, selectedPlayerId, playerActions>>
  /\ Static

\* c.stats.useActionPoints(amount)
UseActionPoints(c, amount) ==
  \E r \in {useActionPoints(mActionPoints[c], amount)} :
    /\ mActionPoints' = [mActionPoints EXCEPT ![c] = r.value]
    /\ ret' = Call("useActionPoints", c, amount, mActionPoints[c], r.result)
    /\ raised' = FALSE
    /\ UNCHANGED mHitPoints
    /\ Frame

\* c.stats.useHitPoints(amount)
UseHitPoints(c, amount) ==
  \E r \in {useHitPoints(mHitPoints[c], amount)} :
    /\ mHitPoints' = [mHitPoints EXCEPT ![c] = r.value]
    /\ ret' = Call("useHitPoints", c, amount, mHitPoints[c], r.result)
    /\ raised' = FALSE
    /\ UNCHANGED mActionPoints
    /\ Frame

\* c.stats.healBy(amount)
HealBy(c, amount) ==
  /\ mHitPoints' =
       [mHitPoints EXCEPT ![c] = healBy(@, mMaxHitPoints[c], amount)]
  /\ ret' = NoCall
  /\ raised' = FALSE
  /\ UNCHANGED mActionPoints
  /\ Frame

\* c.stats.healFull()
HealFull(c) ==
  /\ mHitPoints' = [mHitPoints EXCEPT ![c] = mMaxHitPoints[c]]
  /\ ret' = NoCall
  /\ raised' = FALSE
  /\ UNCHANGED mActionPoints
  /\ Frame

\* c.stats.restoreBy(amount)
RestoreBy(c, amount) ==
  /\ mActionPoints' =
       [mActionPoints EXCEPT ![c] = restoreBy(@, maxActionPoints[c], amount)]
  /\ ret' = NoCall
  /\ raised' = FALSE
  /\ UNCHANGED mHitPoints
  /\ Frame

\* c.stats.restoreFull()
RestoreFull(c) ==
  /\ mActionPoints' = [mActionPoints EXCEPT ![c] = maxActionPoints[c]]
  /\ ret' = NoCall
  /\ raised' = FALSE
  /\ UNCHANGED mHitPoints
  /\ Frame

\* attacker.attack(target); rec tells whether the call is recorded, with
\* the attacker's action points and the target's hit points before it.
CharacterAttackRec(attacker, target, rec) ==
  \E hit \in {attack(Now, attacker, target)} :
    /\ SetState(hit)
    /\ ret' = IF rec
              THEN [op |-> "attack", unit |-> attacker, target |-> target,
                    ap |-> mActionPoints[attacker],
                    hp |-> mHitPoints[target]]
              ELSE NoCall
    /\ raised' = FALSE
    /\ UNCHANGED <<selectedPlayerId, playerActions>>
    /\ Static

CharacterAttack(attacker, target) == CharacterAttackRec(attacker, target, FALSE)

\* c.newTurn()
NewTurn(c) ==
  \E renewed \in {newTurn(Now, c, maxActionPoints)} :
    /\ SetState(renewed)
    /\ ret' = NoCall
    /\ raised' = FALSE
    /\ UNCHANGED <<selectedPlayerId, playerActions>>
    /\ Static

Amounts == 0 .. MaxAmount

StatsNext ==
  \/ \E c \in Characters, n \in Amounts : UseActionPoints(c, n)
  \/ \E c \in Characters, n \in Amounts : UseHitPoints(c, n)
  \/ \E c \in Characters, n \in Amounts : HealBy(c, n)
  \/ \E c \in Characters : HealFull(c)
  \/ \E c \in Characters, n \in Amounts : RestoreBy(c, n)
  \/ \E c \in Characters : RestoreFull(c)
  \/ \E a \in Characters, t \in Characters : CharacterAttackRec(a, t, TRUE)
  \/ \E c \in Characters : NewTurn(c)
  \/ \E c \in Characters : MoveImmediate(c, SpawnCell[c])
  \/ EndTurn

InitStats == InitWorld(Neutral)

SpecStats == InitStats /\ [][StatsNext]_vars

\* ------------------------------------------------------------------------
\* Direct calls that place the units on the grid
\* ------------------------------------------------------------------------
\* Cells the units are moved to: the right edge of the open floor, the
\* colliding tile inside it and the bottom right corner of the map.
GridCells ==
  {GridGet(GridWidth - 1, 6), GridGet(1, 7),
   GridGet(GridWidth - 1, GridHeight - 1)}

InitGrid == \E mc \in Control : InitWorld(mc)

GridNext == \E u \in Units, c \in GridCells : MoveImmediate(u, c)

SpecGrid == InitGrid /\ [][GridNext]_vars

\* ------------------------------------------------------------------------
\* Direct calls of Grid.get
\* ------------------------------------------------------------------------
GetXs == (0 - 2) .. (GridWidth + 1)
GetYs == (0 - 2) .. (GridHeight + 1)

\* grid.get(x, y)
GridGetCall(x, y) ==
  /\ ret' = [op |-> "get", x |-> x, y |-> y, result |-> GridGet(x, y)]
  /\ raised' = FALSE
  /\ UNCHANGED <<cellUnits, unitCell, mActionPoints, mHitPoints,
                 selectedPlayerId, playerActions>>
  /\ Static

\* grid.get(x, y).adjacentCells(fill) for a cell c of the grid
AdjacentCellsCall(c, fill) ==
  /\ ret' = [op |-> "adjacentCells", cell |-> c, fill |-> fill,
             result |-> adjacentCells(c, fill)]
  /\ raised' = FALSE
  /\ UNCHANGED <<cellUnits, unitCell, mActionPoints, mHitPoints,
                 selectedPlayerId, playerActions>>
  /\ Static

Fills == 0 .. MaxFill

GetNext ==
  \/ \E x \in GetXs, y \in GetYs : GridGetCall(x, y)
  \/ \E c \in Cells, fill \in Fills : AdjacentCellsCall(c, fill)

SpecGet == InitStats /\ [][GetNext]_vars

\* ------------------------------------------------------------------------
\* The handlers alone, the clicks recorded, with a direct move of the
\* second player onto the tile next to both players
\* ------------------------------------------------------------------------
PlayCells == {GridGet(1, 6)}

PlayNext ==
  \/ \E id \in SelectIds : SelectPlayer(id)
  \/ \E x \in ClickXs, y \in ClickYs : HandleClickRec(x, y, TRUE)
  \/ EndTurnRec(TRUE)
  \/ \E c \in PlayCells : MoveImmediate("f2", c)

SpecPlay == Init /\ [][PlayNext]_vars

\* ------------------------------------------------------------------------
\* The game as played: the world the parser builds, where every unit that
\* counts is a Character, and nothing but the handlers of the input
\* ------------------------------------------------------------------------
\* A map with one player and two zombies: the player f1 spawns at (0,6),
\* the first zombie z1 at (2,6), the second, here the unit f2, at (2,7),
\* the marker at (1,6).
SpawnCellTwo ==
  [u \in Units |->
     CASE u = "f1" -> GridGet(0, 6)
       [] u = "f2" -> GridGet(2, 7)
       [] u = "z1" -> GridGet(2, 6)
       [] OTHER   -> GridGet(1, 6)]

RECURSIVE SpawnedTwo(_, _)
SpawnedTwo(cu, k) ==
  IF k > Len(SpawnOrder) THEN cu
  ELSE SpawnedTwo(addUnit(cu, SpawnCellTwo[SpawnOrder[k]], SpawnOrder[k]),
                  k + 1)

InitTwoZombies ==
  /\ cellUnits = SpawnedTwo([c \in Cells |-> << >>], 1)
  /\ unitCell = SpawnCellTwo
  /\ control = [u \in Units |->
                  IF u = "f1" THEN Friendly
                  ELSE IF u \in Characters THEN Hostile ELSE Neutral]
  /\ mMaxHitPoints = [c \in Characters |-> MaxHP]
  /\ maxActionPoints =
       [c \in Characters |->
          IF c = "f2" THEN 1 ELSE IF c = "z1" THEN MaxAP + 1 ELSE MaxAP]
  /\ mHitPoints = mMaxHitPoints
  /\ mActionPoints = maxActionPoints
  /\ players = << "f1" >>
  /\ zombies = << "z1", "f2" >>
  /\ selectedPlayerId = 0
  /\ playerActions =
       getUnitActions([cu |-> cellUnits, uc |-> unitCell,
                       ap |-> mActionPoints, hp |-> mHitPoints],
                      control, "f1")
  /\ raised = FALSE
  /\ ret = NoCall
  /\ aiTurn = NoTurn
  /\ keyboard = NoKeyboard

InitGame == InitWorld(Neutral) \/ InitTwoZombies

GameNext ==
  \/ \E id \in SelectIds : SelectPlayer(id)
  \/ \E x \in ClickXs, y \in ClickYs : HandleClickRec(x, y, TRUE)
  \/ EndTurnRec(TRUE)

SpecGame == InitGame /\ [][GameNext]_vars

\* ------------------------------------------------------------------------
\* The Keyboard (keyboard.ts) and HelloScene.onKeyInput (index.ts)
\* ------------------------------------------------------------------------
\* Three of the keys of Keyboard.keys, in the order of the list: a movement
\* key, the key that selects the next player and the key that ends the
\* turn.
Keys == << "d", "tab", "space" >>

KeyNames == {Keys[k] : k \in 1 .. Len(Keys)}

\* HelloScene.keyDeltas
keyDeltas == [d |-> [x |-> 1, y |-> 0]]

\* What the Keyboard's own steps leave alone: the world.
KeyFrame ==
  UNCHANGED <<cellUnits, unitCell, control, mHitPoints, mActionPoints,
              mMaxHitPoints, maxActionPoints, players, zombies,
              selectedPlayerId, playerActions, raised, ret, aiTurn>>

\* The browser reports a key going down: Key.isDown becomes true.
KeyDown(key) ==
  /\ keyboard.pending = NoKey
  /\ key \notin keyboard.isDown
  /\ keyboard' = [keyboard EXCEPT !.isDown = @ \cup {key}]
  /\ KeyFrame

\* The browser reports a key going up: Key.isUp becomes true and the press
\* is over.
KeyUp(key) ==
  /\ keyboard.pending = NoKey
  /\ key \in keyboard.isDown
  /\ keyboard' = [keyboard EXCEPT !.isDown = @ \ {key},
                                  !.fired = @ \ {key}]
  /\ KeyFrame

\* Keyboard.update, up to the call of onPress: lastKeyDown is forgotten
\* when that key is up; the first key of the list that is down and is not
\* lastKeyDown becomes lastKeyDown and onPress is called with its name.
KeyboardUpdate ==
  /\ keyboard.pending = NoKey
  /\ \E last \in {IF keyboard.lastKeyDown \notin keyboard.isDown
                   THEN NoKey ELSE keyboard.lastKeyDown} :
     \E down \in {{k \in 1 .. Len(Keys) :
                     Keys[k] \in keyboard.isDown /\ Keys[k] # last}} :
       IF down = {}
       THEN keyboard' = [keyboard EXCEPT !.lastKeyDown = last]
       ELSE \E k \in {i \in down : \A o \in down : i <= o} :
              keyboard' = [keyboard EXCEPT !.lastKeyDown = Keys[k],
                                           !.fired = @ \cup {Keys[k]},
                                           !.pending = Keys[k]]
  /\ KeyFrame

\* HelloScene.onKeyInput(key), the onPress of the Keyboard, with the key
\* update has called it with; update returns when it does.
OnKeyInput ==
  /\ keyboard.pending # NoKey
  /\ CASE keyboard.pending = "tab" ->
            SelectPlayer(IF selectedPlayerId + 1 > 2 THEN 0
                         ELSE selectedPlayerId + 1)
       [] keyboard.pending = "space" -> EndTurn
       [] OTHER ->
            \E pc \in {getSelectedPlayer(selectedPlayerId)} :
              IF pc = NoUnit
              THEN \* destructuring undefined: a TypeError
                   /\ raised' = TRUE
                   /\ ret' = NoCall
                   /\ UNCHANGED <<cellUnits, unitCell, mActionPoints,
                                  mHitPoints, selectedPlayerId, playerActions>>
                   /\ Static
              ELSE \E x \in {UnitX(Now, pc) + keyDeltas[keyboard.pending].x} :
                   \E y \in {UnitY(Now, pc) + keyDeltas[keyboard.pending].y} :
                     IF isOnGrid(x, y)
                     THEN HandleClick(x, y)
                     ELSE \* getTileAt gives null off the map
                          /\ raised' = FALSE
                          /\ ret' = NoCall
                          /\ UNCHANGED <<cellUnits, unitCell, mActionPoints,
                                         mHitPoints, selectedPlayerId,
                                         playerActions>>
                          /\ Static

KeysNext ==
  \/ \E key \in KeyNames : KeyDown(key)
  \/ \E key \in KeyNames : KeyUp(key)
  \/ KeyboardUpdate
  \/ OnKeyInput

SpecKeys == InitGame /\ [][KeysNext]_vars

\* ------------------------------------------------------------------------
\* The player's handlers with World.killFriendly and World.killHostile,
\* within one player phase
\* ------------------------------------------------------------------------
\* Array.prototype.indexOf: the 0-based index of the first occurrence of
\* unit in roster, -1 when there is none.
IndexOf(roster, unit) ==
  IF \E k \in 1 .. Len(roster) : roster[k] = unit
  THEN (CHOOSE k \in 1 .. Len(roster) :
          /\ roster[k] = unit
          /\ \A j \in 1 .. (k - 1) : roster[j] # unit) - 1
  ELSE 0 - 1

\* Array.prototype.splice(start, 1): a negative start counts from the end
\* of the array, a start beyond the end removes nothing.
Splice(roster, start) ==
  LET from == IF start < 0 THEN Max(Len(roster) + start, 0)
              ELSE Min(start, Len(roster))
  IN  [k \in 1 .. (Len(roster) - (IF from < Len(roster) THEN 1 ELSE 0)) |->
         IF k <= from THEN roster[k] ELSE roster[k + 1]]

\* World.killFriendly(character): the roster it leaves. The menu entry is
\* removed; the unit stays in its cell, the selection and the action set
\* are not touched.
killFriendly(roster, character) == Splice(roster, IndexOf(roster, character))

\* World.killHostile(character): the zombie roster it leaves; the index
\* is looked up in the friendly roster.
killHostile(roster, character) == Splice(roster, IndexOf(players, character))

KillFriendly(character) ==
  /\ players' = killFriendly(players, character)
  /\ ret' = [op |-> "killFriendly", unit |-> character]
  /\ raised' = FALSE
  /\ UNCHANGED <<cellUnits, unitCell, mActionPoints, mHitPoints,
                 selectedPlayerId, playerActions, control, mMaxHitPoints,
                 maxActionPoints, zombies, aiTurn, keyboard>>

KillHostile(character) ==
  /\ zombies' = killHostile(zombies, character)
  /\ ret' = [op |-> "killHostile", unit |-> character]
  /\ raised' = FALSE
  /\ UNCHANGED <<cellUnits, unitCell, mActionPoints, mHitPoints,
                 selectedPlayerId, playerActions, control, mMaxHitPoints,
                 maxActionPoints, players, aiTurn, keyboard>>

RosterNext ==
  \/ \E id \in SelectIds : SelectPlayer(id)
  \/ \E x \in ClickXs, y \in ClickYs : HandleClickRec(x, y, TRUE)
  \/ \E c \in Characters : KillFriendly(c)
  \/ \E c \in Characters : KillHostile(c)

\* The rosters of both maps: two players and a zombie, a player and two
\* zombies.
InitRoster == Init \/ InitTwoZombies

SpecRoster == InitRoster /\ [][RosterNext]_vars

\* ------------------------------------------------------------------------
\* AIController.doTurn run by steps, on a second map with two zombies
\* ------------------------------------------------------------------------
\* The zombie doTurn is working on.
TurnZombie == zombies[aiTurn.k]

\* world.endTurn() reaches aiController.doTurn(): the forEach starts.
AIBegin ==
  /\ aiTurn = NoTurn
  /\ aiTurn' = [k |-> 1, scanned |-> FALSE, nearby |-> << >>,
                start |-> NoCell]
  /\ raised' = FALSE
  /\ ret' = NoCall
  /\ UNCHANGED <<cellUnits, unitCell, mActionPoints, mHitPoints,
                 selectedPlayerId, playerActions, control, mMaxHitPoints,
                 maxActionPoints, players, zombies, keyboard>>

\* The head of the forEach body: restoreFull, then the scan that builds
\* nearby; a TypeError in the scan leaves doTurn.
AIScan ==
  /\ aiTurn.k \in 1 .. Len(zombies)
  /\ ~aiTurn.scanned
  /\ \E restored \in {[Now EXCEPT !.ap[TurnZombie] =
                                     maxActionPoints[TurnZombie]]} :
       /\ SetState(restored)
       /\ IF ScanRaises(restored, TurnZombie)
          THEN aiTurn' = NoTurn /\ raised' = TRUE
          ELSE /\ aiTurn' = [aiTurn EXCEPT
                               !.scanned = TRUE,
                               !.nearby = Nearby(restored, TurnZombie),
                               !.start = unitCell[TurnZombie]]
               /\ raised' = FALSE
  /\ ret' = NoCall
  /\ UNCHANGED <<selectedPlayerId, playerActions, control, mMaxHitPoints,
                 maxActionPoints, players, zombies, keyboard>>

\* One iteration of the while loop of doActions.
AIAction ==
  /\ aiTurn.k \in 1 .. Len(zombies)
  /\ aiTurn.scanned
  /\ mActionPoints[TurnZombie] # 0
  /\ \E acted \in {doAction(Now, TurnZombie, aiTurn.nearby)} : SetState(acted)
  /\ raised' = FALSE
  /\ ret' = NoCall
  /\ UNCHANGED <<selectedPlayerId, playerActions, aiTurn, control,
                 mMaxHitPoints, maxActionPoints, players, zombies,
                 keyboard>>

\* The while loop of doActions ends; the forEach goes to the next zombie.
AINext ==
  /\ aiTurn.k \in 1 .. Len(zombies)
  /\ aiTurn.scanned
  /\ mActionPoints[TurnZombie] = 0
  /\ aiTurn' = [k |-> aiTurn.k + 1, scanned |-> FALSE, nearby |-> << >>,
                start |-> NoCell]
  /\ raised' = FALSE
  /\ ret' = NoCall
  /\ UNCHANGED <<cellUnits, unitCell, mActionPoints, mHitPoints,
                 selectedPlayerId, playerActions, control, mMaxHitPoints,
                 maxActionPoints, players, zombies, keyboard>>

\* The forEach is through: doTurn returns.
AIEnd ==
  /\ aiTurn.k = Len(zombies) + 1
  /\ aiTurn' = NoTurn
  /\ raised' = FALSE
  /\ ret' = NoCall
  /\ UNCHANGED <<cellUnits, unitCell, mActionPoints, mHitPoints,
                 selectedPlayerId, playerActions, control, mMaxHitPoints,
                 maxActionPoints, players, zombies, keyboard>>

\* The second map: the first zombie spawns at (2,6), the second, here the
\* unit f2, at (0,7) with no or one action point, the only player f1 four
\* tiles below the first zombie at (2,10), the marker at (1,6).
SpawnCellAI ==
  [u \in Units |->
     CASE u = "f1" -> GridGet(2, 10)
       [] u = "f2" -> GridGet(0, 7)
       [] u = "z1" -> GridGet(2, 6)
       [] OTHER   -> GridGet(1, 6)]

RECURSIVE SpawnedAI(_, _)
SpawnedAI(cu, k) ==
  IF k > Len(SpawnOrder) THEN cu
  ELSE SpawnedAI(addUnit(cu, SpawnCellAI[SpawnOrder[k]], SpawnOrder[k]),
                 k + 1)

InitAI ==
  /\ cellUnits = SpawnedAI([c \in Cells |-> << >>], 1)
  /\ unitCell = SpawnCellAI
  /\ control = [u \in Units |->
                  IF u = "f1" THEN Friendly
                  ELSE IF u \in Characters THEN Hostile ELSE Neutral]
  /\ mMaxHitPoints = [c \in Characters |-> MaxHP]
  /\ \E ap2 \in {0, 1} :
       maxActionPoints =
         [c \in Characters |->
            IF c = "f2" THEN ap2 ELSE IF c = "z1" THEN MaxAP + 1 ELSE MaxAP]
  /\ mHitPoints = mMaxHitPoints
  /\ mActionPoints = maxActionPoints
  /\ players = << "f1" >>
  /\ zombies = << "z1", "f2" >>
  /\ selectedPlayerId = 0
  /\ playerActions =
       getUnitActions([cu |-> cellUnits, uc |-> unitCell,
                       ap |-> mActionPoints, hp |-> mHitPoints],
                      control, "f1")
  /\ raised = FALSE
  /\ ret = NoCall
  /\ aiTurn = NoTurn
  /\ keyboard = NoKeyboard

\* Cells the units are put on between two turns of the AI.
AICells == {GridGet(2, 6), GridGet(0, 7), GridGet(2, 10)}

AISetup ==
  /\ aiTurn = NoTurn
  /\ \/ \E u \in Characters, c \in AICells : MoveImmediate(u, c)
     \/ \E t \in Characters : t # "f1" /\ CharacterAttack("f1", t)

AIStepNext ==
  \/ AIBegin
  \/ AIScan
  \/ AIAction
  \/ AINext
  \/ AIEnd
  \/ AISetup

SpecAI == InitAI /\ [][AIStepNext]_vars

\* doTurn is one synchronous call: once begun, each of its steps that can
\* run does run.
\* Between two AI turns of the fair specification the player stands in
\* sight of the zombies at (2,10) or out of sight at (2,13), and the first
\* zombie may be back at (2,6).
TurnCells == {GridGet(2, 10), GridGet(2, 13)}

AIPlace ==
  /\ aiTurn = NoTurn
  /\ \/ \E c \in TurnCells : MoveImmediate("f1", c)
     \/ MoveImmediate("z1", GridGet(2, 6))

AITurnStep == AIScan \/ AIAction \/ AINext \/ AIEnd

AIFairNext == AIBegin \/ AITurnStep \/ AIPlace

SpecAIFair == InitAI /\ [][AIFairNext]_vars /\ WF_vars(AITurnStep)

\* ------------------------------------------------------------------------
\* Properties
\* ------------------------------------------------------------------------
\* The number of times unit u occurs in the unit list of cell c.
Occurrences(c, u) ==
  Cardinality({k \in 1 .. Len(cellUnits[c]) : cellUnits[c][k] = u})

\* C1: every unit is in the unit list of exactly one cell, occurs there
\* exactly once, and that cell is the cell the unit reports as its own, so
\* the cell's (x, y) is the unit's (x, y).
C1_UnitInExactlyOneCell ==
  \A u \in Units :
    /\ unitCell[u] \in Cells
    /\ \A c \in Cells :
         Occurrences(c, u) = (IF c = unitCell[u] THEN 1 ELSE 0)
    /\ \E c \in Cells :
         /\ hasUnit(cellUnits, c, u)
         /\ CellX(c) = UnitX(Now, u)
         /\ CellY(c) = UnitY(Now, u)

\* A player has moved by a click, the zombie by its turn and the marker by
\* a direct move.
C1_Witness ==
  /\ \E f \in Friendlies : unitCell[f] # SpawnCell[f]
  /\ \E z \in Hostiles : unitCell[z] # SpawnCell[z]
  /\ \E m \in Markers : unitCell[m] # SpawnCell[m]

\* C2: the hit points of every character stay within 0 and its maximum,
\* and its action points within 0 and its maximum.
C2_StatsWithinBounds ==
  \A c \in Characters :
    /\ mHitPoints[c] >= 0
    /\ mHitPoints[c] <= mMaxHitPoints[c]
    /\ mActionPoints[c] >= 0
    /\ mActionPoints[c] <= maxActionPoints[c]

\* More hit points were taken than the character had, and it is at 0.
C2_Witness ==
  /\ ret.op = "useHitPoints"
  /\ ret.amount > ret.before
  /\ mHitPoints[ret.unit] = 0

\* C3: useActionPoints(n) with n above the remaining action points leaves
\* them unchanged and returns false; otherwise it takes n off and returns
\* true; the action points are never negative.
C3_UseActionPoints ==
  ret.op = "useActionPoints" =>
    /\ mActionPoints[ret.unit] >= 0
    /\ IF ret.amount > ret.before
       THEN /\ mActionPoints[ret.unit] = ret.before
            /\ ret.result = FALSE
       ELSE /\ mActionPoints[ret.unit] = ret.before - ret.amount
            /\ ret.result = TRUE

\* A call asked for more action points than were left and was refused.
C3_Witness ==
  /\ ret.op = "useActionPoints"
  /\ ret.amount > ret.before
  /\ ret.result = FALSE
  /\ mActionPoints[ret.unit] = ret.before

\* C4: useHitPoints(n) leaves the hit points at max(old - n, 0) and returns
\* true exactly when the hit points are 0 after the call.
C4_UseHitPointsReportsDeath ==
  ret.op = "useHitPoints" =>
    /\ mHitPoints[ret.unit] = Max(ret.before - ret.amount, 0)
    /\ ret.result = (mHitPoints[ret.unit] = 0)

\* Coordinates the queries are asked about: every neighbour of a position
\* a unit can be at, on the grid or one step off it.
QueryXs == (0 - 1) .. GridWidth
QueryYs == {0 - 1, 0, 5, 6, 7, 8, GridHeight - 2, GridHeight - 1, GridHeight}

\* The facts the queries are about, read off the units' own positions.
InGrid(x, y) == x \in 0 .. (GridWidth - 1) /\ y \in 0 .. (GridHeight - 1)
UnitsAt(x, y) == {v \in Units : UnitX(Now, v) = x /\ UnitY(Now, v) = y}
CanAttack(a, v) ==
  control[a] # Neutral /\ control[v] # Neutral /\ control[a] # control[v]
HoldsAttackable(a, x, y) == \E v \in UnitsAt(x, y) : CanAttack(a, v)
Free(x, y) ==
  /\ ~Collides(x + y * GridWidth)
  /\ \A v \in UnitsAt(x, y) : ~preventsMovement(v)
Neighbours(u) ==
  {p \in QueryXs \X QueryYs :
     /\ InGrid(p[1], p[2])
     /\ p # <<UnitX(Now, u), UnitY(Now, u)>>
     /\ Abs(p[1] - UnitX(Now, u)) <= 1
     /\ Abs(p[2] - UnitY(Now, u)) <= 1}
CanAct(u) == u \notin Characters \/ mActionPoints[u] > 0
ActionCells(acts) == {<<acts[k].x, acts[k].y>> : k \in 1 .. Len(acts)}

\* C5: getUnitActions of a character with no action points left is empty.
C5_NoActionsWithoutActionPoints ==
  \A u \in Characters :
    mActionPoints[u] <= 0 => getUnitActions(Now, control, u) = << >>

\* A character without action points that has a neighbour cell to act on.
C5_Witness ==
  \E u \in Characters :
    /\ mActionPoints[u] = 0
    /\ \E p \in Neighbours(u) :
         HoldsAttackable(u, p[1], p[2]) \/ Free(p[1], p[2])
    /\ getUnitActions(Now, control, u) = << >>

\* C6: for a unit that can act, the actions of getUnitActions are at most
\* 8, and their positions are exactly the on-grid cells at Chebyshev
\* distance 1 of the unit that hold a unit it can attack or are pathable;
\* never the unit's own cell, never a position off the grid.
C6_ActionsOnNeighbourCells ==
  \A u \in Units :
    CanAct(u) =>
      LET acts == getUnitActions(Now, control, u)
      IN  /\ Len(acts) <= 8
          /\ ActionCells(acts) =
               {p \in Neighbours(u) :
                  HoldsAttackable(u, p[1], p[2]) \/ Free(p[1], p[2])}

\* A unit on the right edge that can act, where the array read one step
\* to the right lands on a cell of the next row that it could act on.
C6_Witness ==
  \E u \in Units :
    /\ CanAct(u)
    /\ UnitX(Now, u) = GridWidth - 1
    /\ getUnitActions(Now, control, u) # << >>
    /\ \E j \in {0 - 1, 0, 1} :
         LET c == GridGet(GridWidth, UnitY(Now, u) + j)
         IN  /\ c # NoCell
             /\ \/ HoldsAttackable(u, CellX(c), CellY(c))
                \/ Free(CellX(c), CellY(c))

\* C7: getUnitActions returns at most one action per neighbour cell: an
\* Attack on a resident the unit can attack when the cell holds one, and a
\* Move, without target, only when it holds none.
C7_AttackBeforeMove ==
  \A u \in Units :
    LET acts == getUnitActions(Now, control, u)
    IN  /\ \A k, l \in 1 .. Len(acts) :
             (acts[k].x = acts[l].x /\ acts[k].y = acts[l].y) => k = l
        /\ \A k \in 1 .. Len(acts) :
             IF HoldsAttackable(u, acts[k].x, acts[k].y)
             THEN /\ acts[k].type = Attack
                  /\ acts[k].targetUnit \in UnitsAt(acts[k].x, acts[k].y)
                  /\ CanAttack(u, acts[k].targetUnit)
             ELSE /\ acts[k].type = Move
                  /\ acts[k].targetUnit = NoUnit

\* A neighbour cell that is pathable and holds a unit that can be attacked:
\* the one action there is the Attack.
C7_Witness ==
  \E u \in Units :
    /\ CanAct(u)
    /\ \E p \in Neighbours(u) :
         /\ Free(p[1], p[2])
         /\ HoldsAttackable(u, p[1], p[2])
         /\ \E k \in 1 .. Len(getUnitActions(Now, control, u)) :
              LET a == getUnitActions(Now, control, u)[k]
              IN  a.x = p[1] /\ a.y = p[2] /\ a.type = Attack

\* The places in the unit list of the cell at (x, y), on the grid, of the
\* units that a can attack.
AttackablePlaces(a, x, y) ==
  {k \in 1 .. Len(cellUnits[x + y * GridWidth]) :
     CanAttack(a, cellUnits[x + y * GridWidth][k])}

\* C8: getAttackbleUnit(attacker, x, y) is null off the grid and when no
\* resident of the cell differs in control from the attacker with neither
\* of them Neutral; otherwise it is the first such resident in the order
\* the units were added to the cell.
C8_FirstAttackableUnit ==
  \A a \in Units, x \in QueryXs, y \in QueryYs :
    LET r == getAttackbleUnit(cellUnits, control, a, x, y)
    IN  IF ~InGrid(x, y) THEN r = NoUnit
        ELSE IF AttackablePlaces(a, x, y) = {} THEN r = NoUnit
        ELSE \E k \in AttackablePlaces(a, x, y) :
               /\ \A l \in AttackablePlaces(a, x, y) : k <= l
               /\ r = cellUnits[x + y * GridWidth][k]

\* A cell holds two units that the same attacker can attack.
C8_Witness ==
  \E a \in Units, x \in QueryXs, y \in QueryYs :
    /\ InGrid(x, y)
    /\ Cardinality(AttackablePlaces(a, x, y)) >= 2
    /\ getAttackbleUnit(cellUnits, control, a, x, y) =
         cellUnits[x + y * GridWidth][1]

\* C9: isPathable(x, y) is true exactly when (x, y) is on the grid, its
\* tile does not collide and no unit standing there prevents movement.
C9_IsPathable ==
  \A x \in QueryXs, y \in QueryYs :
    GridIsPathable(cellUnits, x, y) = (InGrid(x, y) /\ Free(x, y))

\* An open cell holding only the marker is pathable, an open cell holding
\* a character is not.
C9_Witness ==
  /\ \E m \in Markers :
       /\ Free(UnitX(Now, m), UnitY(Now, m))
       /\ GridIsPathable(cellUnits, UnitX(Now, m), UnitY(Now, m))
  /\ \E c \in Characters :
       /\ ~Collides(unitCell[c])
       /\ ~GridIsPathable(cellUnits, UnitX(Now, c), UnitY(Now, c))

\* C10: Grid.get of a coordinate off the grid gives the result for "not on
\* the grid", never the cell of another coordinate.
C10_GetOffGrid ==
  (ret.op = "get" /\ ~InGrid(ret.x, ret.y)) => ret.result = NoCell

\* C11: Grid.get of a coordinate on the grid returns the cell that was
\* built for that coordinate, whose x and y are the queried ones; the
\* coordinate alone determines it, so it is the same cell at every call.
C11_GetOnGrid ==
  (ret.op = "get" /\ InGrid(ret.x, ret.y)) =>
    /\ ret.result \in Cells
    /\ CellX(ret.result) = ret.x
    /\ CellY(ret.result) = ret.y

\* The cell of the bottom right corner was asked for.
C11_Witness ==
  /\ ret.op = "get"
  /\ ret.x = GridWidth - 1
  /\ ret.y = GridHeight - 1
  /\ ret.result = NumCells - 1

\* C12: adjacentCells(r) of a cell of the grid holds exactly the cells of
\* the grid at Chebyshev distance at most r of it: no entry is undefined
\* and no cell farther away is among them.
C12_AdjacentCells ==
  ret.op = "adjacentCells" =>
    {ret.result[k] : k \in 1 .. Len(ret.result)} =
      {c \in Cells :
         /\ Abs(CellX(c) - CellX(ret.cell)) <= ret.fill
         /\ Abs(CellY(c) - CellY(ret.cell)) <= ret.fill}

\* The roster indices of the friendly units standing on (x, y).
PlayersAt(x, y) ==
  {id \in 0 .. (Len(players) - 1) :
     UnitX(Now, players[id + 1]) = x /\ UnitY(Now, players[id + 1]) = y}

\* C13: a handleClick on a coordinate a friendly roster unit stands on
\* only selects that unit: selectedPlayerId becomes its roster index and
\* no unit's cell, action points or hit points change, also when the
\* coordinate is a position of the action set of the unit selected before.
C13_SelectionClick ==
  [][\A x \in ClickXs, y \in ClickYs :
       (PlayersAt(x, y) # {} /\ HandleClickRec(x, y, TRUE)) =>
         /\ selectedPlayerId' \in PlayersAt(x, y)
         /\ UNCHANGED <<cellUnits, unitCell, mActionPoints, mHitPoints>>]_vars

\* A click has selected a player standing on a position of the action set
\* of the player selected before.
C13_Witness ==
  /\ ret.op = "handleClick"
  /\ ret.did = "select"
  /\ ret.matched

\* The positions of the current action set.
ActionPositions == ActionCells(playerActions)

\* C14: a handleClick on a coordinate that holds no friendly roster unit
\* and is no position of the action set changes nothing: the selection,
\* the action set, every unit's cell, action points and hit points and
\* both rosters stay, and no grid event fires.
C14_IdleClick ==
  [][\A x \in ClickXs, y \in ClickYs :
       (/\ PlayersAt(x, y) = {}
        /\ <<x, y>> \notin ActionPositions
        /\ HandleClickRec(x, y, TRUE)) =>
         /\ UNCHANGED <<selectedPlayerId, playerActions, cellUnits, unitCell,
                        mActionPoints, mHitPoints, players, zombies>>
         /\ ret'.spoken = << >>]_vars

\* A click has done nothing while the selected player had actions to take
\* and the speak event's tile was one of them.
C14_Witness ==
  /\ ret.op = "handleClick"
  /\ ret.did = "nothing"
  /\ \E k \in 1 .. Len(gridEvents) :
       <<gridEvents[k].x, gridEvents[k].y>> \in ActionPositions

InRoster(u, roster) == \E k \in 1 .. Len(roster) : roster[k] = u

\* C15: when an Attack executed by handleClick brings the target's hit
\* points to 0, then after the call the attacker has one action point
\* less, and the target is in no cell's unit list and in no roster.
C15_AttackRemovesDead ==
  [][\A t \in Characters :
       (/\ ret'.op = "handleClick"
        /\ ret'.did = "act"
        /\ mHitPoints[t] > 0
        /\ mHitPoints'[t] = 0) =>
         /\ \E a \in Characters :
              /\ a = getSelectedPlayer(selectedPlayerId)
              /\ mActionPoints'[a] = mActionPoints[a] - 1
         /\ \A c \in Cells : ~hasUnit(cellUnits', c, t)
         /\ ~InRoster(t, players')
         /\ ~InRoster(t, zombies')]_vars

\* C16: a character whose hit points are 0 is left alone: getUnitActions
\* gives no actions for it and no Attack on it, and in doTurn a hostile
\* with 0 hit points does not act and an attack of a hostile always takes
\* a hit point from a friendly unit that had one.
C16_DeadUnitsLeftAlone ==
  /\ [](\A u \in Units :
          LET acts == getUnitActions(Now, control, u)
          IN  /\ (u \in Characters /\ mHitPoints[u] = 0) => acts = << >>
              /\ \A k \in 1 .. Len(acts) :
                   (acts[k].type = Attack
                      /\ acts[k].targetUnit \in Characters) =>
                     mHitPoints[acts[k].targetUnit] > 0)
  /\ [][AIAction =>
          /\ mHitPoints[TurnZombie] > 0
          /\ (/\ aiTurn.nearby # << >>
              /\ unitCell'[TurnZombie] = unitCell[TurnZombie]) =>
               \E t \in Characters :
                 /\ control[t] = Friendly
                 /\ mHitPoints[t] > 0
                 /\ mHitPoints'[t] = mHitPoints[t] - 1]_vars

\* The state after the step, as the record the operations work on.
Then == [cu |-> cellUnits', uc |-> unitCell', ap |-> mActionPoints',
         hp |-> mHitPoints']

\* C17: when endTurn returns, every unit of both rosters has its maximal
\* action points, the hit points are those the AI turn left, the selected
\* player id is the one before the call and the action set is the one of
\* the selected player in the new state.
C17_EndTurnRestores ==
  [][(ret'.op = "endTurn" /\ ~raised') =>
       /\ \A k \in 1 .. Len(players \o zombies) :
            mActionPoints'[(players \o zombies)[k]] =
              maxActionPoints[(players \o zombies)[k]]
       /\ mHitPoints' = ret'.afterAI
       /\ selectedPlayerId' = selectedPlayerId
       /\ playerActions' =
            getUnitActions(Then, control, players[selectedPlayerId + 1])]_vars

\* An endTurn has returned in which the zombie has left its spawn cell:
\* it is back at its maximal action points, as are the players.
C17_Witness ==
  /\ ~raised
  /\ ret.op = "endTurn"
  /\ \E z \in Hostiles : unitCell[z] # SpawnCell[z]
  /\ \A c \in Characters : mActionPoints[c] = maxActionPoints[c]
  /\ selectedPlayerId = 1

\* C18: selectPlayer and handleClick leave every hostile unit's cell and
\* action points as they are and take no hit point from a friendly unit.
C18_PlayerPhaseLeavesAI ==
  [][(ret'.op = "handleClick" \/ \E id \in SelectIds : SelectPlayer(id)) =>
       \A c \in Characters :
         /\ control[c] = Hostile =>
              /\ unitCell'[c] = unitCell[c]
              /\ mActionPoints'[c] = mActionPoints[c]
         /\ control[c] = Friendly => mHitPoints'[c] >= mHitPoints[c]]_vars

\* A click has made a player attack a hostile unit, which has all its
\* action points and is on its spawn cell.
C18_Witness ==
  /\ ret.op = "handleClick"
  /\ ret.did = "act"
  /\ \E z \in Hostiles :
       /\ mHitPoints[z] < mMaxHitPoints[z]
       /\ mActionPoints[z] = maxActionPoints[z]
       /\ unitCell[z] = SpawnCell[z]

\* C19: a step of a hostile toward a friendly unit takes exactly one
\* action point from it, so a hostile with 3 action points whose only
\* visible friendly unit stands 4 tiles away in a straight line ends its
\* turn 3 tiles from where it started, next to the friendly unit, with no
\* action point left and no hit point taken.
C19_OnePointPerStep ==
  /\ [][(AIAction /\ unitCell'[TurnZombie] # unitCell[TurnZombie]) =>
          mActionPoints'[TurnZombie] = mActionPoints[TurnZombie] - 1]_vars
  /\ [](\A f \in Characters :
          (/\ aiTurn.scanned
           /\ maxActionPoints[TurnZombie] = 3
           /\ mActionPoints[TurnZombie] = 0
           /\ aiTurn.nearby # << >>
           /\ \A k \in DOMAIN aiTurn.nearby : aiTurn.nearby[k] = f
           /\ CellX(unitCell[f]) = CellX(aiTurn.start)
           /\ CellY(unitCell[f]) = CellY(aiTurn.start) + 4) =>
            /\ CellX(unitCell[TurnZombie]) = CellX(aiTurn.start)
            /\ CellY(unitCell[TurnZombie]) = CellY(aiTurn.start) + 3
            /\ mHitPoints[f] = mMaxHitPoints[f])

\* C20: AIController.doTurn terminates: every iteration of a hostile's
\* action loop leaves it with strictly fewer action points, only the
\* hostile whose turn it is changes place or action points, the forEach
\* goes from a hostile to the next one of the roster and only when the
\* former has no action point left, and a turn that has begun ends.
C20_DoTurnTerminates ==
  /\ [][aiTurn # NoTurn =>
          /\ \A u \in Characters :
               (\/ unitCell'[u] # unitCell[u]
                \/ mActionPoints'[u] # mActionPoints[u]) =>
                 /\ aiTurn.k \in 1 .. Len(zombies)
                 /\ u = TurnZombie
          /\ (aiTurn.scanned /\ aiTurn' = aiTurn) =>
               mActionPoints'[TurnZombie] < mActionPoints[TurnZombie]
          /\ (aiTurn' # NoTurn /\ aiTurn'.k # aiTurn.k) =>
               /\ aiTurn'.k = aiTurn.k + 1
               /\ aiTurn.scanned
               /\ mActionPoints[TurnZombie] = 0]_vars
  /\ (aiTurn # NoTurn) ~> (aiTurn = NoTurn)

\* The second hostile of the roster has used up its action point after the
\* first one has used up its own.
C20_Witness ==
  /\ aiTurn.k = 2
  /\ aiTurn.scanned
  /\ maxActionPoints[TurnZombie] > 0
  /\ mActionPoints[TurnZombie] = 0
  /\ maxActionPoints[zombies[1]] > 0
  /\ mActionPoints[zombies[1]] = 0
  /\ unitCell[zombies[1]] # SpawnCellAI[zombies[1]]

\* The friendly unit the zombie whose turn it is would choose now.
TurnTarget == closest(Now, TurnZombie, aiTurn.nearby)

\* C21: an AI action whose nearest visible friendly unit is in melee range
\* is an attack: the hostile stays on its cell and spends one action
\* point, and the target loses one hit point.
C21_MeleeAttack ==
  [][(AIAction /\ TurnTarget # NoUnit
        /\ inMeleeRange(Now, TurnZombie, TurnTarget)) =>
       /\ unitCell'[TurnZombie] = unitCell[TurnZombie]
       /\ mActionPoints'[TurnZombie] = mActionPoints[TurnZombie] - 1
       /\ mHitPoints'[TurnTarget] = mHitPoints[TurnTarget] - 1]_vars

\* C22: an AI action of a hostile that sees no friendly unit takes exactly
\* one action point from it and changes nothing else, so the hostile is
\* on the cell where its turn started as long as its turn lasts.
C22_Wander ==
  /\ [][(AIAction /\ aiTurn.nearby = << >>) =>
          /\ mActionPoints' =
               [mActionPoints EXCEPT ![TurnZombie] = @ - 1]
          /\ UNCHANGED <<cellUnits, unitCell, mHitPoints>>]_vars
  /\ []((aiTurn.scanned /\ aiTurn.nearby = << >>) =>
          unitCell[TurnZombie] = aiTurn.start)

\* A hostile that sees nobody has spent its action points.
C22_Witness ==
  /\ aiTurn.scanned
  /\ aiTurn.nearby = << >>
  /\ maxActionPoints[TurnZombie] > 1
  /\ mActionPoints[TurnZombie] = 0

\* Chebyshev distance between the cells of two units in state S.
Chebyshev(S, a, b) ==
  Max(Abs(UnitX(S, a) - UnitX(S, b)), Abs(UnitY(S, a) - UnitY(S, b)))

\* The coordinate one step from `from' toward `to' on one axis.
Toward(from, to) ==
  IF to > from THEN from + 1 ELSE IF to < from THEN from - 1 ELSE from

\* C23: an AI action whose nearest visible friendly unit is out of melee
\* range moves the hostile one step toward it on each axis (none on an
\* axis where they are aligned): the destination is a cell of the grid
\* and the Chebyshev distance to the target goes down by exactly 1. The
\* destination is not asked to be pathable.
C23_MoveToward ==
  [][(AIAction /\ TurnTarget # NoUnit
        /\ ~inMeleeRange(Now, TurnZombie, TurnTarget)) =>
       /\ unitCell'[TurnZombie] \in Cells
       /\ UnitX(Then, TurnZombie) =
            Toward(UnitX(Now, TurnZombie), UnitX(Now, TurnTarget))
       /\ UnitY(Then, TurnZombie) =
            Toward(UnitY(Now, TurnZombie), UnitY(Now, TurnTarget))
       /\ Chebyshev(Then, TurnZombie, TurnTarget) =
            Chebyshev(Now, TurnZombie, TurnTarget) - 1]_vars

\* A hostile has stepped diagonally onto the tile the marker stands on,
\* which is not pathable.
C23_Witness ==
  /\ aiTurn.scanned
  /\ unitCell[TurnZombie] = unitCell["m1"]
  /\ CellX(unitCell[TurnZombie]) # CellX(aiTurn.start)
  /\ CellY(unitCell[TurnZombie]) # CellY(aiTurn.start)
  /\ ~CellIsPathable(cellUnits, unitCell[TurnZombie])

\* C24: the friendly units a hostile considers during its turn are exactly
\* the friendly Characters within Chebyshev distance 5 of the cell the
\* hostile stands on when its turn starts, wherever on the grid that is.
C24_VisibleWithinRange ==
  aiTurn.scanned =>
    {aiTurn.nearby[k] : k \in 1 .. Len(aiTurn.nearby)} =
      {f \in Characters :
         /\ control[f] = Friendly
         /\ Abs(CellX(unitCell[f]) - CellX(aiTurn.start))
              <= rangeOfVisibility
         /\ Abs(CellY(unitCell[f]) - CellY(aiTurn.start))
              <= rangeOfVisibility}

\* The lists of at most MaxHumans Characters handed to closest.
HumanLists ==
  UNION {[1 .. n -> Characters] : n \in 0 .. MaxHumans}

\* C25: closest answers null for an empty list; otherwise it answers a
\* unit of the list at minimal Euclidean distance of the hostile, the one
\* that comes first in the list among those at that distance; doAction
\* makes this choice on the positions it is called with.
C25_Closest ==
  \A z \in Characters, humans \in HumanLists :
    LET result == closest(Now, z, humans)
    IN  /\ humans = << >> => result = NoUnit
        /\ humans # << >> =>
             \E k \in 1 .. Len(humans) :
               /\ result = humans[k]
               /\ \A j \in 1 .. Len(humans) :
                    Distance2(Now, humans[j], z) >= Distance2(Now, result, z)
               /\ \A j \in 1 .. (k - 1) :
                    Distance2(Now, humans[j], z) > Distance2(Now, result, z)
        /\ (result # NoUnit /\ result # z /\ mActionPoints[z] > 0) =>
             LET acted == doAction(Now, z, humans)
             IN  IF inMeleeRange(Now, z, result)
                 THEN acted.uc = unitCell
                 ELSE Distance2(acted, result, z) < Distance2(Now, result, z)

\* Two units on different tiles at the same distance of a third: each is
\* the answer when it comes first.
C25_Witness ==
  \E z \in Characters, a \in Characters, b \in Characters :
    /\ unitCell[a] # unitCell[b]
    /\ Distance2(Now, a, z) = Distance2(Now, b, z)
    /\ Distance2(Now, a, z) > 0
    /\ closest(Now, z, << a, b >>) = a
    /\ closest(Now, z, << b, a >>) = b

\* How many of the dialogue requests of the recorded call carry `text'.
Requests(spoken, text) ==
  Cardinality({j \in 1 .. Len(spoken) : spoken[j] = text})

\* C26: every player Move fires each Speak event bound to the unit's new
\* coordinates exactly once, with the event's text, and no other Speak
\* event, whatever has fired before: the events are not used up.
C26_SpeakOnEveryMove ==
  [][\A id \in 0 .. (Len(players) - 1) :
       (/\ ret'.op = "handleClick"
        /\ ret'.did = "act"
        /\ selectedPlayerId = id
        /\ unitCell'[players[id + 1]] # unitCell[players[id + 1]]) =>
         \A k \in 1 .. Len(gridEvents) :
           gridEvents[k].type = "speak" =>
             Requests(ret'.spoken, gridEvents[k].text) =
               IF /\ gridEvents[k].x = UnitX(Then, players[id + 1])
                  /\ gridEvents[k].y = UnitY(Then, players[id + 1])
               THEN 1 ELSE 0]_vars

\* The first player has moved onto the tile of the first Speak event and
\* the event's text has been requested, after the zombie has hurt it in an
\* earlier turn: the only way into the zombie's reach leads over that
\* tile, so the event has fired for this player before.
C26_Witness ==
  /\ ret.op = "handleClick"
  /\ ret.did = "act"
  /\ ret.spoken = << gridEvents[1].text >>
  /\ selectedPlayerId = 0
  /\ UnitX(Now, players[1]) = gridEvents[1].x
  /\ UnitY(Now, players[1]) = gridEvents[1].y
  /\ mHitPoints[players[1]] < mMaxHitPoints[players[1]]

\* The Speak events bound to the coordinates of unit u after the step.
EventsUnder(u) ==
  {k \in 1 .. Len(gridEvents) :
     /\ gridEvents[k].type = "speak"
     /\ gridEvents[k].x = UnitX(Then, u)
     /\ gridEvents[k].y = UnitY(Then, u)}

\* C27 as stated: whenever a handleClick or an endTurn changes the cell of
\* a unit, the grid events at the unit's new coordinates fire.
C27_EventsOnEveryPositionChange ==
  [][\A u \in Characters :
       (/\ ret'.op \in {"handleClick", "endTurn"}
        /\ unitCell'[u] # unitCell[u]) =>
         \A k \in EventsUnder(u) :
           Requests(ret'.spoken, gridEvents[k].text) >= 1]_vars

\* C27, amended: grid events are checked after a player Move only. A
\* handleClick that moves the selected player fires the events at its new
\* coordinates, once each; a handleClick that moves nobody fires none; an
\* endTurn fires none, wherever the AI steps take the hostiles.
C27_EventsOnPlayerMoveOnly ==
  [][/\ ret'.op = "endTurn" => ret'.spoken = << >>
     /\ ret'.op = "handleClick" =>
          \A k \in 1 .. Len(gridEvents) :
            gridEvents[k].type = "speak" =>
              Requests(ret'.spoken, gridEvents[k].text) =
                Cardinality({id \in 0 .. (Len(players) - 1) :
                               /\ id = selectedPlayerId
                               /\ ret'.did = "act"
                               /\ unitCell'[players[id + 1]] #
                                    unitCell[players[id + 1]]
                               /\ k \in EventsUnder(players[id + 1])})]_vars

\* An endTurn has returned with a hostile standing on the tile of a Speak
\* event away from its spawn, and no dialogue was requested.
C27_Witness ==
  /\ ret.op = "endTurn"
  /\ ~raised
  /\ ret.spoken = << >>
  /\ \E z \in Characters, k \in 1 .. Len(gridEvents) :
       /\ control[z] = Hostile
       /\ unitCell[z] # SpawnCell[z]
       /\ gridEvents[k].type = "speak"
       /\ gridEvents[k].x = UnitX(Now, z)
       /\ gridEvents[k].y = UnitY(Now, z)

\* C28: exactly one friendly unit is selected at any time: selectedPlayerId
\* is an index of the friendly roster and the unit it selects is alive.
C28_OneSelected ==
  /\ selectedPlayerId \in 0 .. (Len(players) - 1)
  /\ getSelectedPlayer(selectedPlayerId) # NoUnit
  /\ mHitPoints[getSelectedPlayer(selectedPlayerId)] > 0

\* The action set pa is the one getUnitActions gives for the unit selected
\* by id in state S.
FreshIn(S, id, pa) ==
  /\ getSelectedPlayer(id) # NoUnit
  /\ pa = getUnitActions(S, control, getSelectedPlayer(id))

\* C29: the action set is never stale: a selectPlayer, handleClick,
\* endTurn, killFriendly or killHostile call that returns, begun with
\* playerActions equal to getUnitActions of the selected player, leaves
\* playerActions equal to getUnitActions of the player then selected, on
\* the rosters, cells and points the call leaves.
C29_ActionSetFresh ==
  [][(/\ FreshIn(Now, selectedPlayerId, playerActions)
      /\ ~raised'
      /\ \/ ret'.op \in {"handleClick", "endTurn", "killFriendly",
                         "killHostile"}
         \/ \E id \in SelectIds : SelectPlayer(id)) =>
       /\ selectedPlayerId' \in 0 .. (Len(players') - 1)
       /\ playerActions' =
            getUnitActions(Then, control, players'[selectedPlayerId' + 1])]_vars

\* What two worlds are compared on: the unit lists of the cells, the
\* units' cells, action points and hit points, the rosters, the selection
\* and the action set.
WorldState ==
  <<cellUnits, unitCell, mActionPoints, mHitPoints, players, zombies,
    selectedPlayerId, playerActions>>

\* What the record of a handleClick step tells about the clicked tile: a
\* selecting click was on the tile of the player now selected, an idle
\* click on a tile with no player and no action, an acting click on a tile
\* of the action set, the one the selected player stands on if it moved.
\* HandleClickRec(x, y, TRUE) implies it; it is tested first to save work.
MayBeClicked(x, y) ==
  CASE ret'.did = "select" -> selectedPlayerId' \in PlayersAt(x, y)
    [] ret'.did = "nothing" ->
         PlayersAt(x, y) = {} /\ <<x, y>> \notin ActionPositions
    [] OTHER ->
         /\ PlayersAt(x, y) = {}
         /\ <<x, y>> \in ActionPositions
         /\ \A id \in 0 .. (Len(players) - 1) :
              (/\ id = selectedPlayerId
               /\ unitCell'[players[id + 1]] # unitCell[players[id + 1]]) =>
                unitCell'[players[id + 1]] = GridGet(x, y)

RowMajorBefore(x1, y1, x2, y2) == y1 < y2 \/ (y1 = y2 /\ x1 < x2)
ColumnMajorBefore(x1, y1, x2, y2) == x1 < x2 \/ (x1 = x2 /\ y1 < y2)

\* The square of radius fill around cell c lies on the grid.
SquareOnGrid(c, fill) ==
  /\ InGrid(CellX(c) - fill, CellY(c) - fill)
  /\ InGrid(CellX(c) + fill, CellY(c) + fill)

\* C31 as stated: the actions of getUnitActions, and the cells of
\* adjacentCells for a square on the grid, are sorted by y first and by x
\* within equal y.
C31_RowMajor ==
  /\ \A u \in Units :
       \E acts \in {getUnitActions(Now, control, u)} :
         \A k \in 1 .. (Len(acts) - 1) :
           RowMajorBefore(acts[k].x, acts[k].y, acts[k + 1].x, acts[k + 1].y)
  /\ \A c \in Cells, fill \in Fills :
       SquareOnGrid(c, fill) =>
         \E r \in {adjacentCells(c, fill)} :
           \A k \in 1 .. (Len(r) - 1) :
             RowMajorBefore(CellX(r[k]), CellY(r[k]),
                            CellX(r[k + 1]), CellY(r[k + 1]))

\* C31: the neighbourhood scans enumerate column by column (x outer, y
\* inner): the actions of getUnitActions, and the cells of adjacentCells
\* for a square on the grid, are sorted by x first and by y within equal x.
C31_ColumnMajor ==
  /\ \A u \in Units :
       \E acts \in {getUnitActions(Now, control, u)} :
         \A k \in 1 .. (Len(acts) - 1) :
           ColumnMajorBefore(acts[k].x, acts[k].y,
                             acts[k + 1].x, acts[k + 1].y)
  /\ \A c \in Cells, fill \in Fills :
       SquareOnGrid(c, fill) =>
         \E r \in {adjacentCells(c, fill)} :
           \A k \in 1 .. (Len(r) - 1) :
             ColumnMajorBefore(CellX(r[k]), CellY(r[k]),
                               CellX(r[k + 1]), CellY(r[k + 1]))

\* A unit whose actions hold a position of a lower row after one of a
\* higher row, in a column further right; so do the cells of a square.
C31_Witness ==
  /\ \E u \in Units :
    \E acts \in {getUnitActions(Now, control, u)} :
      \E k \in 1 .. (Len(acts) - 1) :
        acts[k].x < acts[k + 1].x /\ acts[k].y > acts[k + 1].y
  /\ \E c \in Cells :
       /\ SquareOnGrid(c, 1)
       /\ \E r \in {adjacentCells(c, 1)} :
            CellX(r[3]) < CellX(r[4]) /\ CellY(r[3]) > CellY(r[4])


\* C32: every action a click executes costs the selected player exactly
\* one action point, which it had: a click either leaves every unit's
\* cell, hit points and action points alone, or takes one action point
\* from the selected player, who had one, and none from any other unit.
\* No call but endTurn gives a player action points, and no player holds
\* more than its maximum; so between two endTurn calls a player with
\* maximum m executes at most m actions, and none at 0.
C32_OnePointPerAction ==
  [][/\ ret'.op = "handleClick" =>
          \/ /\ unitCell' = unitCell
             /\ mHitPoints' = mHitPoints
             /\ mActionPoints' = mActionPoints
          \/ \E pc \in {getSelectedPlayer(selectedPlayerId)} :
               /\ pc # NoUnit
               /\ mActionPoints[pc] >= 1
               /\ mActionPoints[pc] <= maxActionPoints[pc]
               /\ mActionPoints' = [mActionPoints EXCEPT ![pc] = @ - 1]
     /\ ret'.op # "endTurn" =>
          \A k \in 1 .. Len(players) :
            mActionPoints'[players[k]] <= mActionPoints[players[k]]]_vars

\* A click has made the selected player act with its last action point.
C32_Witness ==
  /\ ret.op = "handleClick"
  /\ ret.did = "act"
  /\ ~raised
  /\ \E pc \in {getSelectedPlayer(selectedPlayerId)} :
       /\ pc # NoUnit
       /\ maxActionPoints[pc] > 1
       /\ mActionPoints[pc] = 0
       /\ unitCell[pc] # SpawnCell[pc]
       /\ playerActions = << >>


\* The Chebyshev distance of two cells.
CellDistance(a, b) ==
  Max(Abs(CellX(a) - CellX(b)), Abs(CellY(a) - CellY(b)))

\* C33: handleClick moves and attacks as a computed action allows only:
\* a click that moves a unit moves the selected player alone, to a cell of
\* the grid at Chebyshev distance 1 whose terrain does not collide and
\* which held no movement-blocking unit; a click that spends an action
\* point without a move is an attack on a unit that is not Neutral, of
\* another control, on a cell at Chebyshev distance 1.
C33_ComputedActionsOnly ==
  [][ret'.op = "handleClick" =>
       \E pc \in {getSelectedPlayer(selectedPlayerId)} :
         /\ unitCell' # unitCell =>
              /\ pc # NoUnit
              /\ \A u \in Units : u # pc => unitCell'[u] = unitCell[u]
              /\ unitCell'[pc] \in Cells
              /\ CellDistance(unitCell[pc], unitCell'[pc]) = 1
              /\ ~Collides(unitCell'[pc])
              /\ \A k \in 1 .. Len(cellUnits[unitCell'[pc]]) :
                   ~preventsMovement(cellUnits[unitCell'[pc]][k])
         /\ (unitCell' = unitCell /\ mActionPoints' # mActionPoints) =>
              /\ pc # NoUnit
              /\ \E t \in Characters :
                   /\ control[t] # Neutral
                   /\ control[t] # control[pc]
                   /\ CellDistance(unitCell[pc], unitCell[t]) = 1
                   /\ mHitPoints' =
                        [mHitPoints EXCEPT ![t] = useHitPoints(@, 1).value]]_vars


Without(roster, c) == SelectSeq(roster, LAMBDA u : u # c)

\* C35: killHostile(c) for a zombie c of the roster leaves the zombie
\* roster without c, the other zombies in their order; killFriendly(c) for
\* a player c of the roster leaves the friendly roster without c, the
\* other players in their order.
C35_KillRemovesExactly ==
  [][/\ (ret'.op = "killHostile" /\ InRoster(ret'.unit, zombies)) =>
          zombies' = Without(zombies, ret'.unit)
     /\ (ret'.op = "killFriendly" /\ InRoster(ret'.unit, players)) =>
          players' = Without(players, ret'.unit)]_vars


\* C36: AIController.doTurn never raises: for a zombie at any position of
\* the grid, near an edge or not, the scan of its neighbourhood goes
\* through and the turn goes on.
C36_DoTurnNeverRaises ==
  [][(aiTurn.k \in 1 .. Len(zombies) /\ ~aiTurn.scanned) =>
       (~raised' /\ aiTurn' # NoTurn)]_vars


\* C37: in a game that starts with at most one movement-blocking unit per
\* cell and every Character on terrain that does not collide, no cell
\* ever holds two movement-blocking units and no Character ever stands on
\* colliding terrain, whatever the clicks and endTurn calls.
C37_OneBlockingUnitPerCell ==
  /\ \A c \in Cells :
       Cardinality({k \in 1 .. Len(cellUnits[c]) :
                      preventsMovement(cellUnits[c][k])}) <= 1
  /\ \A u \in Characters : ~Collides(unitCell[u])


\* C38: Keyboard.update calls onPress at most once, and never again for a
\* key that is still held since its onPress was last called, whatever
\* other keys are held with it.
C38_OncePerPress ==
  [][(keyboard.pending = NoKey /\ keyboard'.pending # NoKey) =>
       keyboard'.pending \notin keyboard.fired]_vars

====
